---- MODULE Spec2Model ----
(***************************************************************************)
(* Model of app.py: the Flask handler index and the two dataset            *)
(* transformations it calls, age_by_state and deaths_by_county.            *)
(*                                                                         *)
(* Text is modelled as a sequence of one-character strings, so that        *)
(* equality, substring search, splitting, lower-casing and lexicographic   *)
(* order are computed character by character as Python computes them.      *)
(* A data-frame is a sequence of rows (records); a cell is NaN (<<>>) or    *)
(* Num(v) (<<v>>).  A float is held as its number of halves, so that the    *)
(* mean numpy.median takes of two middle values is exact.                  *)
(***************************************************************************)
EXTENDS Integers, Sequences, FiniteSets, TLC

VARIABLES
    pc,            \* position of the caller / of the request
    state,         \* the `state` argument of age_by_state / deaths_by_county
    data,          \* the `data` argument of age_by_state / deaths_by_county
    county_data,   \* module global county_data (bokeh us_counties sample)
    ret,           \* value returned by the function under call
    args,          \* request.args of the request in flight
    remote,        \* the datasets the two endpoints serve to this request
    locals,        \* index's local variables when it returned or raised
    response       \* outcome of the request handled by index

vars == <<pc, state, data, county_data, ret, args, remote, locals, response>>

(***************************** bounds **************************************)
MaxStateRows == 3
MaxCountyRows == 2
MaxGeo == 3
MaxReqStateRows == 3
MaxReqCountyRows == 1

(***************************** text ****************************************)
Digits ==
    <<"0","1","2","3","4","5","6","7","8","9">>
Upper ==
    <<"A","B","C","D","E","F","G","H","I","J","K","L","M","N","O","P","Q","R","S","T","U","V","W","X","Y","Z">>
Lower ==
    <<"a","b","c","d","e","f","g","h","i","j","k","l","m","n","o","p","q","r","s","t","u","v","w","x","y","z">>

InSeq(seq, x) == \E i \in 1..Len(seq) : seq[i] = x

IndexOf(seq, x) == CHOOSE i \in 1..Len(seq) : seq[i] = x

\* code point of a character (the characters the datasets below use)
ord(c) ==
    CASE c = " " -> 32
      [] c = "," -> 44
      [] c = "-" -> 45
      [] InSeq(Digits, c) -> 47 + IndexOf(Digits, c)
      [] InSeq(Upper, c) -> 64 + IndexOf(Upper, c)
      [] InSeq(Lower, c) -> 96 + IndexOf(Lower, c)

\* str.lower()
str_lower(s) ==
    [i \in 1..Len(s) |-> IF InSeq(Upper, s[i]) THEN Lower[IndexOf(Upper, s[i])] ELSE s[i]]

\* a < b on Python strings: lexicographic by code point
RECURSIVE str_lt(_, _)
str_lt(a, b) ==
    IF b = <<>> THEN FALSE
    ELSE IF a = <<>> THEN TRUE
    ELSE IF a[1] = b[1] THEN str_lt(Tail(a), Tail(b))
    ELSE ord(a[1]) < ord(b[1])

\* s starts with pat
RECURSIVE str_startswith(_, _)
str_startswith(s, pat) ==
    IF pat = <<>> THEN TRUE
    ELSE IF s = <<>> THEN FALSE
    ELSE s[1] = pat[1] /\ str_startswith(Tail(s), Tail(pat))

\* Series.str.contains(pat) for a pattern without regex metacharacters
RECURSIVE str_contains(_, _)
str_contains(s, pat) ==
    IF str_startswith(s, pat) THEN TRUE
    ELSE IF s = <<>> THEN FALSE
    ELSE str_contains(Tail(s), pat)

\* x.split(sep)[0]: the text before the first sep, all of x when it has none
RECURSIVE split_first(_, _)
split_first(x, sep) ==
    IF x = <<>> THEN <<>>
    ELSE IF x[1] = sep THEN <<>>
    ELSE <<x[1]>> \o split_first(Tail(x), sep)

(***************************** literals ************************************)
NewYork ==
    <<"N","e","w"," ","Y","o","r","k">>
NewJersey ==
    <<"N","e","w"," ","J","e","r","s","e","y">>
NewYorkCity ==
    <<"N","e","w"," ","Y","o","r","k"," ","C","i","t","y">>
UsTotal ==
    <<"U","S"," ","T","o","t","a","l">>
Total ==
    <<"T","o","t","a","l">>
NY ==
    <<"N","Y">>
NJ ==
    <<"N","J">>
Under1 ==
    <<"U","n","d","e","r"," ","1"," ","y","e","a","r">>
Age1to4 ==
    <<"1","-","4"," ","y","e","a","r","s">>
Age5to14 ==
    <<"5","-","1","4"," ","y","e","a","r","s">>
Age15to24 ==
    <<"1","5","-","2","4"," ","y","e","a","r","s">>
Age25to34 ==
    <<"2","5","-","3","4"," ","y","e","a","r","s">>
Age35to44 ==
    <<"3","5","-","4","4"," ","y","e","a","r","s">>
Age45to54 ==
    <<"4","5","-","5","4"," ","y","e","a","r","s">>
Age55to64 ==
    <<"5","5","-","6","4"," ","y","e","a","r","s">>
Age65to74 ==
    <<"6","5","-","7","4"," ","y","e","a","r","s">>
Age75to84 ==
    <<"7","5","-","8","4"," ","y","e","a","r","s">>
Age85 ==
    <<"8","5"," ","y","e","a","r","s"," ","a","n","d"," ","o","v","e","r">>
AllAges ==
    <<"A","l","l"," ","A","g","e","s">>
EssexCounty ==
    <<"E","s","s","e","x"," ","C","o","u","n","t","y">>
KingsCounty ==
    <<"K","i","n","g","s"," ","C","o","u","n","t","y">>
Essex ==
    <<"E","s","s","e","x">>
Kings ==
    <<"K","i","n","g","s">>
EssexNYDetailed ==
    <<"E","s","s","e","x"," ","C","o","u","n","t","y",","," ","N","e","w"," ","Y","o","r","k">>
KingsNYDetailed ==
    <<"K","i","n","g","s"," ","C","o","u","n","t","y",","," ","N","e","w"," ","Y","o","r","k">>
Bronx ==
    <<"B","r","o","n","x">>
BronxNYDetailed ==
    <<"B","r","o","n","x"," ","C","o","u","n","t","y",","," ","N","e","w"," ","Y","o","r","k">>
EssexNJDetailed ==
    <<"E","s","s","e","x"," ","C","o","u","n","t","y",","," ","N","e","w"," ","J","e","r","s","e","y">>

(***************************** module constants ****************************)
STATE_FIGURES ==
    <<"covid_19_deaths", "total_deaths", "pneumonia_deaths",
      "pneumonia_and_covid_19_deaths", "influenza_deaths",
      "pneumonia_influenza_or_covid">>

AGE_GROUPS ==
    <<Under1, Age1to4, Age5to14, Age15to24, Age25to34, Age35to44,
      Age45to54, Age55to64, Age65to74, Age75to84, Age85>>

\* the region-code -> display-name dict imported as state_mapping, in
\* insertion order
state_mapping ==
    << <<NY, NewYork>>, <<NJ, NewJersey>> >>

\* Python objects of differing type are tagged records
None == [kind |-> "None"]

Tuple(items) == [kind |-> "tuple", items |-> items]

(***************************** cells ***************************************)
NaN == <<>>

Num(v) == <<v>>

\* DataFrame.fillna(0) on one cell
fillna(cell) == IF cell = NaN THEN Num(0) ELSE cell

\* astype(float) on one filled cell: the float, in halves
astype_float(cell) == cell[1] + cell[1]

(***************************** age_by_state ********************************)
\* data[data['state'] == f'{state}']
MutSelectStatePrefix(df, st) ==
    SelectSeq(df, LAMBDA r : str_startswith(r.state, st))

select_state(df, st) ==
    SelectSeq(df, LAMBDA r : r.state = st)

\* df_state[df_state['age_group'].isin(AGE_GROUPS)]
MutSelectAllAgeGroups(df) == df

select_age_groups(df) ==
    SelectSeq(df, LAMBDA r : InSeq(AGE_GROUPS, r.age_group))

\* Series.unique(): the distinct values in order of first appearance
RECURSIVE unique(_)
unique(s) ==
    IF s = <<>> THEN <<>>
    ELSE LET init == unique(SubSeq(s, 1, Len(s) - 1))
             last == s[Len(s)]
         IN  IF InSeq(init, last) THEN init ELSE Append(init, last)

\* insertion of one key into a sorted key sequence
RECURSIVE insert_sorted(_, _)
insert_sorted(keys, k) ==
    IF keys = <<>> THEN <<k>>
    ELSE IF str_lt(k, keys[1]) THEN <<k>> \o keys
    ELSE <<keys[1]>> \o insert_sorted(Tail(keys), k)

\* the group keys of groupby('age_group'), sort=True by default
MutUnsortedKeys(keys) == keys

RECURSIVE sort_keys(_)
sort_keys(keys) ==
    IF keys = <<>> THEN <<>>
    ELSE insert_sorted(sort_keys(SubSeq(keys, 1, Len(keys) - 1)), keys[Len(keys)])

\* sum of one column down the rows, NaN skipped (skipna)
RECURSIVE column_sum(_, _)
column_sum(df, col) ==
    IF df = <<>> THEN 0
    ELSE (IF df[1][col] = NaN THEN 0 ELSE df[1][col][1]) + column_sum(Tail(df), col)

\* df_state.groupby('age_group')[STATE_FIGURES].sum()
groupby_sum(df) ==
    LET keys == sort_keys(unique([i \in 1..Len(df) |-> df[i].age_group]))
        group(k) == SelectSeq(df, LAMBDA r : r.age_group = k)
    IN  [i \in 1..Len(keys) |->
            [age_group |-> keys[i],
             sums |-> [f \in {STATE_FIGURES[j] : j \in 1..Len(STATE_FIGURES)} |->
                          column_sum(group(keys[i]), f)]]]

\* age_by_state(data, state): the figure (its x_range factors) and df_age
age_by_state(df, st) ==
    LET df_state == select_age_groups(select_state(df, st))
        cohorts == unique([i \in 1..Len(df_state) |-> df_state[i].age_group])
        df_age == groupby_sum(df_state)
    IN  [plot |-> [kind |-> "figure", x_range |-> cohorts, source |-> df_age],
         df_age |-> df_age]

(***************************** deaths_by_county ****************************)
\* {code: name for code, name in state_mapping.items() if name == f'{state}'}
mapped_codes(st) ==
    SelectSeq(state_mapping, LAMBDA kv : kv[2] = st)

\* filter_state: the first item of the dict, None when it is empty
filter_state(mapped) ==
    IF mapped # <<>> THEN Tuple(mapped[1]) ELSE None

\* data[data['state_name'] == state_code]
select_state_name(df, state_code) ==
    SelectSeq(df, LAMBDA r : r.state_name = state_code)

\* the county_data entries with county_name['state'] == state_code.lower()
select_counties(geo, state_code) ==
    SelectSeq(geo, LAMBDA g : g.state = str_lower(state_code))

\* county_df['county_key'] = county_df['detailed name'].apply(lambda x: x.split(',')[0])
add_county_key(counties) ==
    [i \in 1..Len(counties) |->
        [name |-> counties[i].name,
         detailed_name |-> counties[i].detailed_name,
         state |-> counties[i].state,
         lats |-> counties[i].lats,
         lons |-> counties[i].lons,
         county_key |-> split_first(counties[i].detailed_name, ",")]]

\* one row of the merged frame; `l` is the left row, or NaN in every left column
merged_row(l, r) ==
    [state_name |-> l.state_name, county_name |-> l.county_name,
     covid_death |-> l.covid_death,
     name |-> r.name, lats |-> r.lats, lons |-> r.lons, county_key |-> r.county_key]

NaNLeft == [state_name |-> NaN, county_name |-> NaN, covid_death |-> NaN]

\* pd.merge(left, right, left_on='county_name', right_on='county_key', how='right'):
\* the right rows in their order, each once per matching left row (in left
\* order), or once with NaN in the left columns when no left row matches
RECURSIVE MutMergeInner(_, _)
MutMergeInner(left, right) ==
    IF right = <<>> THEN <<>>
    ELSE LET matches == SelectSeq(left, LAMBDA l : l.county_name = right[1].county_key)
         IN  [k \in 1..Len(matches) |-> merged_row(matches[k], right[1])]
             \o MutMergeInner(left, Tail(right))

RECURSIVE merge_right(_, _)
merge_right(left, right) ==
    IF right = <<>> THEN <<>>
    ELSE LET matches == SelectSeq(left, LAMBDA l : l.county_name = right[1].county_key)
             rows == IF matches = <<>>
                     THEN << merged_row(NaNLeft, right[1]) >>
                     ELSE [k \in 1..Len(matches) |-> merged_row(matches[k], right[1])]
         IN  rows \o merge_right(left, Tail(right))

\* insertion of one number into a sorted sequence
RECURSIVE insert_number(_, _)
insert_number(s, v) ==
    IF s = <<>> THEN <<v>>
    ELSE IF v < s[1] THEN <<v>> \o s
    ELSE <<s[1]>> \o insert_number(Tail(s), v)

RECURSIVE sorted(_)
sorted(s) ==
    IF s = <<>> THEN <<>>
    ELSE insert_number(sorted(Tail(s)), s[1])

\* numpy.median of a non-empty list of floats (in halves): the middle value
\* of the sorted list, the mean of the two middle values when the length is even
MutMedianUnsorted(a) ==
    IF Len(a) % 2 = 1 THEN a[(Len(a) + 1) \div 2]
    ELSE (a[Len(a) \div 2] + a[Len(a) \div 2 + 1]) \div 2

median(a) ==
    LET s == sorted(a)
        n == Len(a)
    IN  IF n % 2 = 1 THEN s[(n + 1) \div 2]
        ELSE (s[n \div 2] + s[n \div 2 + 1]) \div 2

\* max of a non-empty list
RECURSIVE max(_)
max(a) ==
    IF Len(a) = 1 THEN a[1]
    ELSE LET m == max(Tail(a)) IN IF a[1] < m THEN m ELSE a[1]

\* what the except clause returns
Failure == Tuple(<<None, None>>)

\* deaths_by_county(data, state), reading the module global county_data as geo;
\* data is a fetched frame that has the columns the code names (state_name,
\* county_name, covid_death and the three date columns dropped at line 47)
deaths_by_county(df, st, geo) ==
    LET found == filter_state(mapped_codes(st))
    IN  IF found = None THEN Failure              \* unpacking None raises TypeError
        ELSE
        LET state_code == found.items[1]
            state_name == found.items[2]
            df_state == select_state_name(df, state_code)
            counties == select_counties(geo, state_code)
        IN  IF counties = <<>> THEN Failure       \* county_df['detailed name'] raises KeyError
            ELSE
            LET county_df == add_county_key(counties)
                df_merged == merge_right(df_state, county_df)
                n == Len(df_merged)
                county_xs == [i \in 1..n |-> df_merged[i].lons]
                county_ys == [i \in 1..n |-> df_merged[i].lats]
                county_names == [i \in 1..n |-> df_merged[i].name]
                county_rates == [i \in 1..n |-> astype_float(fillna(df_merged[i].covid_death))]
                color_mapper == [low |-> median(county_rates), high |-> max(county_rates)]
            IN  IF n = 0 THEN Failure             \* max([]) raises ValueError
                ELSE
                [kind |-> "figure",
                 title |-> state_name,
                 source |-> [x |-> county_xs, y |-> county_ys,
                             name |-> county_names, rate |-> county_rates],
                 color_mapper |-> color_mapper]

(***************************** index ***************************************)
\* state_data.drop(offset, inplace=True), offset the index labels of the rows
\* whose state contains "Total"; read_json labels the rows 0..n-1
MutDropFirstOnly(state_data) ==
    LET offset == {i \in 1..Len(state_data) : str_contains(state_data[i].state, Total)}
        first == IF offset = {} THEN {} ELSE {CHOOSE i \in offset : \A j \in offset : i <= j}
        keep(i) == i \notin first
        RECURSIVE walk(_)
        walk(i) == IF i > Len(state_data) THEN <<>>
                   ELSE (IF keep(i) THEN <<state_data[i]>> ELSE <<>>) \o walk(i + 1)
    IN  walk(1)

drop_rollups(state_data) ==
    LET offset == {i \in 1..Len(state_data) : str_contains(state_data[i].state, Total)}
        RECURSIVE walk(_)
        walk(i) == IF i > Len(state_data) THEN <<>>
                   ELSE (IF i \in offset THEN <<>> ELSE <<state_data[i]>>) \o walk(i + 1)
    IN  walk(1)

\* bokeh.embed.components(models): a Model (or a sequence of Models) gives
\* (script, div); anything else raises ValueError
components(models) ==
    IF models.kind = "figure"
    THEN [raised |-> FALSE, script |-> "script", div |-> models]
    ELSE [raised |-> TRUE]

\* list(filter(lambda x: x != "New York City", state_data['state'].values))
selectable_states(state_data) ==
    SelectSeq([i \in 1..Len(state_data) |-> state_data[i].state],
              LAMBDA x : x # NewYorkCity)

\* index(): the locals and the response of one request; an exception that
\* leaves index becomes Flask's 500 response
index(request_args, served, geo) ==
    LET current_state == IF "state" \notin DOMAIN request_args
                         THEN NewYork ELSE request_args.state
        state_data == drop_rollups(served.state)
        aged == age_by_state(state_data, current_state)
        county_plot == deaths_by_county(served.county, current_state, geo)
        state_c == components(aged.plot)
        county_c == components(county_plot)
        raised == state_c.raised \/ county_c.raised
        l == [current_state |-> current_state, state_data |-> state_data,
              state_plot |-> aged.plot, df |-> aged.df_age,
              county_plot |-> county_plot]
    IN  IF raised
        THEN [locals |-> l, response |-> [status |-> 500]]
        ELSE [locals |-> l,
              response |-> [status |-> 200,
                            state_div |-> state_c.div, county_div |-> county_c.div,
                            current_state |-> current_state,
                            states |-> selectable_states(state_data)]]

(***************************** inputs **************************************)
\* all sequences over S of length at most n
SeqsUpTo(S, n) == UNION {[1..k -> S] : k \in 0..n}

\* the frames pd.read_json can give with the columns the code reads: at least
\* one row (an empty result has no columns at all)
FetchedUpTo(S, n) == SeqsUpTo(S, n) \ {<<>>}

\* all sequences over S of length at most n without repetition
DistinctSeqsUpTo(S, n) ==
    {s \in SeqsUpTo(S, n) : \A i, j \in 1..Len(s) : i # j => s[i] # s[j]}

Figures(c, t, p, pc19, i, pic) ==
    [covid_19_deaths |-> c, total_deaths |-> t, pneumonia_deaths |-> p,
     pneumonia_and_covid_19_deaths |-> pc19, influenza_deaths |-> i,
     pneumonia_influenza_or_covid |-> pic]

StateRow(st, ag, figs) ==
    [state |-> st, age_group |-> ag] @@ figs

\* rows of the cleaned state dataset
StatePool ==
    { StateRow(NewYork, Under1, Figures(Num(2), Num(9), Num(1), Num(0), Num(1), Num(4))),
      StateRow(NewYork, Age25to34, Figures(Num(10), Num(30), Num(4), Num(2), Num(0), Num(12))),
      StateRow(NewYork, Under1, Figures(Num(1), NaN, Num(3), NaN, Num(0), Num(4))),
      StateRow(NewYork, AllAges, Figures(Num(13), Num(39), Num(8), Num(2), Num(1), Num(20))),
      StateRow(NewYorkCity, Under1, Figures(Num(5), Num(6), Num(1), Num(1), Num(0), Num(5))),
      StateRow(NewJersey, Age5to14, Figures(Num(3), Num(7), Num(2), Num(1), Num(1), Num(5))),
      StateRow(str_lower(NewYork), Age25to34, Figures(Num(1), Num(1), Num(0), Num(0), Num(0), Num(0))) }

\* rows the state endpoint serves, rollup rows included
ServedStatePool ==
    { StateRow(NewYork, Under1, Figures(Num(2), Num(9), Num(1), Num(0), Num(1), Num(4))),
      StateRow(NewYork, Age25to34, Figures(Num(10), Num(30), Num(4), Num(2), Num(0), Num(12))),
      StateRow(UsTotal, AllAges, Figures(Num(20), Num(60), Num(9), Num(3), Num(2), Num(30))),
      StateRow(NewYorkCity, Under1, Figures(Num(5), Num(6), Num(1), Num(1), Num(0), Num(5))),
      StateRow(NewJersey, Age5to14, Figures(Num(3), Num(7), Num(2), Num(1), Num(1), Num(5))) }

CountyRow(code, county, deaths) ==
    [state_name |-> code, county_name |-> county, covid_death |-> deaths]

\* rows of the county mortality dataset
CountyPool ==
    { CountyRow(NY, EssexCounty, Num(5)),
      CountyRow(NY, EssexCounty, Num(3)),
      CountyRow(NY, KingsCounty, NaN),
      CountyRow(NJ, EssexCounty, Num(7)) }

ServedCountyPool ==
    { CountyRow(NY, EssexCounty, Num(5)),
      CountyRow(NJ, EssexCounty, Num(7)) }

Geometry(nm, detailed, st, la, lo) ==
    [name |-> nm, detailed_name |-> detailed, state |-> st, lats |-> la, lons |-> lo]

\* entries of the county geometry reference
GeoPool ==
    { Geometry(Essex, EssexNYDetailed, str_lower(NY), <<44, 45>>, <<73, 74>>),
      Geometry(Kings, KingsNYDetailed, str_lower(NY), <<40, 41>>, <<73, 74>>),
      Geometry(Bronx, BronxNYDetailed, str_lower(NY), <<40, 41>>, <<72, 73>>),
      Geometry(Essex, EssexNJDetailed, str_lower(NJ), <<40, 41>>, <<74, 75>>) }

\* the reference the requests run against
GeoSample ==
    << Geometry(Essex, EssexNYDetailed, str_lower(NY), <<44, 45>>, <<73, 74>>),
       Geometry(Kings, KingsNYDetailed, str_lower(NY), <<40, 41>>, <<73, 74>>) >>

\* display names a caller may ask for: two mapped, one unmapped
Targets == {NewYork, NewJersey, NewYorkCity}

Unset == [kind |-> "unset"]

(***************************** age_by_state called *************************)
InitAge ==
    /\ pc = "call"
    /\ state \in {NewYork, NewJersey}
    /\ data \in SeqsUpTo(StatePool, MaxStateRows)
    /\ county_data = <<>>
    /\ ret = Unset
    /\ args = <<>>
    /\ remote = Unset
    /\ locals = Unset
    /\ response = Unset

call_age_by_state ==
    /\ pc = "call"
    /\ ret' = age_by_state(data, state)
    /\ pc' = "returned"
    /\ UNCHANGED <<state, data, county_data, args, remote, locals, response>>

SpecAge == InitAge /\ [][call_age_by_state]_vars

(***************************** deaths_by_county called *********************)
InitCounty ==
    /\ pc = "call"
    /\ state \in Targets
    /\ data \in FetchedUpTo(CountyPool, MaxCountyRows)
    /\ county_data \in DistinctSeqsUpTo(GeoPool, MaxGeo)
    /\ ret = Unset
    /\ args = <<>>
    /\ remote = Unset
    /\ locals = Unset
    /\ response = Unset

call_deaths_by_county ==
    /\ pc = "call"
    /\ ret' = deaths_by_county(data, state, county_data)
    /\ pc' = "returned"
    /\ UNCHANGED <<state, data, county_data, args, remote, locals, response>>

SpecCounty == InitCounty /\ [][call_deaths_by_county]_vars

(***************************** requests ************************************)
Init ==
    /\ pc = "idle"
    /\ state = Unset
    /\ data = Unset
    /\ county_data = GeoSample
    /\ ret = Unset
    /\ args = <<>>
    /\ remote = Unset
    /\ locals = Unset
    /\ response = Unset

\* a client sends GET / with or without ?state=, and the endpoints hold some data
request ==
    /\ pc = "idle"
    /\ \E a \in {<<>>} \cup {[state |-> t] : t \in {NewJersey, NewYorkCity}} :
          args' = a
    /\ \E sd \in FetchedUpTo(ServedStatePool, MaxReqStateRows),
          cd \in FetchedUpTo(ServedCountyPool, MaxReqCountyRows) :
          remote' = [state |-> sd, county |-> cd]
    /\ pc' = "pending"
    /\ UNCHANGED <<state, data, county_data, ret, locals, response>>

\* the handler runs to its return or to the exception that leaves it
handle_index ==
    /\ pc = "pending"
    /\ LET out == index(args, remote, county_data)
       IN  /\ locals' = out.locals
           /\ response' = out.response
    /\ pc' = "responded"
    /\ UNCHANGED <<state, data, county_data, ret, args, remote>>

\* the response is sent; the request's frames and data-frames are gone
deliver ==
    /\ pc = "responded"
    /\ pc' = "idle"
    /\ args' = <<>>
    /\ remote' = Unset
    /\ locals' = Unset
    /\ response' = Unset
    /\ UNCHANGED <<state, data, county_data, ret>>

Next == request \/ handle_index \/ deliver

Spec == Init /\ [][Next]_vars

(***************************** properties: deaths_by_county ****************)
Range(s) == {s[i] : i \in 1..Len(s)}

RECURSIVE SumOver(_, _)
SumOver(S, f) ==
    IF S = {} THEN 0
    ELSE LET x == CHOOSE y \in S : TRUE IN f[x] + SumOver(S \ {x}, f)

\* the codes whose display name is st
ResolvedCodes(st) == {kv[1] : kv \in {m \in Range(state_mapping) : m[2] = st}}

Resolves(st) == ResolvedCodes(st) # {}

\* c with A..Z folded to a..z, as a code point
FoldedOrd(c) == IF ord(c) \in 65..90 THEN ord(c) + 32 ELSE ord(c)

\* the geometry entry's region code is the resolved code, case of the code aside
MatchesCode(g, code) ==
    /\ Len(g.state) = Len(code)
    /\ \A k \in 1..Len(code) : ord(g.state[k]) = FoldedOrd(code[k])

\* positions in the geometry reference of the entries of the resolved region
RegionGeo(geo, st) ==
    {j \in 1..Len(geo) : \E c \in ResolvedCodes(st) : MatchesCode(geo[j], c)}

\* the text of a detailed name before its first comma
CanonicalName(d) ==
    LET commas == {k \in 1..Len(d) : d[k] = ","}
        cut == IF commas = {} THEN Len(d) + 1
               ELSE CHOOSE k \in commas : \A m \in commas : k <= m
    IN  SubSeq(d, 1, cut - 1)

\* positions in the mortality dataset of the records of the resolved region
\* that carry the canonical county name of geometry entry j
MatchesOf(df, geo, st, j) ==
    {i \in 1..Len(df) : /\ df[i].state_name \in ResolvedCodes(st)
                        /\ df[i].county_name = CanonicalName(geo[j].detailed_name)}

Returned == pc = "returned"

IsFigure(v) == v.kind = "figure"

\* C1: the coordinate, name and rate sequences have one length, the number of
\* geometry entries of the resolved region, several mortality records for one
\* county included
EqualLengthPerGeometryEntry ==
    (Returned /\ Resolves(state) /\ IsFigure(ret)) =>
        /\ Len(ret.source.x) = Len(ret.source.rate)
        /\ Len(ret.source.y) = Len(ret.source.rate)
        /\ Len(ret.source.name) = Len(ret.source.rate)
        /\ Len(ret.source.rate) = Cardinality(RegionGeo(county_data, state))

\* rows the join emits for geometry entry j: one, or one per matching record
RowsFor(df, geo, st, j) ==
    LET m == Cardinality(MatchesOf(df, geo, st, j)) IN IF m = 0 THEN 1 ELSE m

\* number of output rows that precede the rows of geometry entry j
RowsBefore(df, geo, st, j) ==
    LET earlier == {k \in RegionGeo(geo, st) : k < j}
    IN  SumOver(earlier, [k \in earlier |-> RowsFor(df, geo, st, k)])

\* the k-th smallest member of a set of numbers
KthOf(S, k) == CHOOSE x \in S : Cardinality({y \in S : y <= x}) = k

\* C2: the output follows the geometry rows in their order; an entry of the
\* region without a mortality record of its canonical name is emitted once,
\* with its name and coordinates and the rate 0.0; a matched entry carries the
\* counts of its records as floats
UnmatchedZeroInGeometryOrder ==
    (Returned /\ Resolves(state) /\ IsFigure(ret)) =>
        \A j \in RegionGeo(county_data, state) :
            LET first == RowsBefore(data, county_data, state, j)
                hits == MatchesOf(data, county_data, state, j)
            IN  /\ first + RowsFor(data, county_data, state, j) <= Len(ret.source.rate)
                /\ \A k \in 1..RowsFor(data, county_data, state, j) :
                      /\ ret.source.name[first + k] = county_data[j].name
                      /\ ret.source.x[first + k] = county_data[j].lons
                      /\ ret.source.y[first + k] = county_data[j].lats
                      /\ hits = {} => ret.source.rate[first + k] = 0
                      /\ hits # {} =>
                            LET cell == data[KthOf(hits, k)].covid_death
                            IN  ret.source.rate[first + k] =
                                    (IF cell = NaN THEN 0 ELSE cell[1] + cell[1])

\* C2 witness: three counties of New York, one record (Essex County, 5):
\* rates 5.0, 0.0, 0.0 in geometry row order
ThreeCountiesOneRecord ==
    /\ Returned
    /\ state = NewYork
    /\ [j \in 1..Len(county_data) |-> county_data[j].name] = <<Essex, Kings, Bronx>>
    /\ data = << CountyRow(NY, EssexCounty, Num(5)) >>
    /\ IsFigure(ret)
    /\ ret.source.rate = <<10, 0, 0>>
    /\ ret.source.name = <<Essex, Kings, Bronx>>

\* v is a median of the non-empty sequence a of floats (in halves): the middle
\* order statistic, the midpoint of the two middle ones when the length is even
IsOrderStatistic(a, k, v) ==
    /\ v \in Range(a)
    /\ Cardinality({i \in 1..Len(a) : a[i] < v}) < k
    /\ Cardinality({i \in 1..Len(a) : a[i] <= v}) >= k

IsMedian(a, v) ==
    IF Len(a) % 2 = 1
    THEN IsOrderStatistic(a, (Len(a) + 1) \div 2, v)
    ELSE \E lo, hi \in Range(a) :
            /\ IsOrderStatistic(a, Len(a) \div 2, lo)
            /\ IsOrderStatistic(a, Len(a) \div 2 + 1, hi)
            /\ v + v = lo + hi

\* C3: the color scale's low is the median of the emitted rates, its high is
\* their maximum, and low never exceeds high
ColorScaleMedianMax ==
    (Returned /\ IsFigure(ret)) =>
        /\ IsMedian(ret.source.rate, ret.color_mapper.low)
        /\ ret.color_mapper.high \in Range(ret.source.rate)
        /\ \A v \in Range(ret.source.rate) : v <= ret.color_mapper.high
        /\ ret.color_mapper.low <= ret.color_mapper.high

\* C3 witness: rates 0.0, 5.0, 0.0 give the scale (0.0, 5.0)
ColorScaleBuilt ==
    /\ Returned
    /\ IsFigure(ret)
    /\ ret.source.rate = <<0, 10, 0>>
    /\ ret.color_mapper = [low |-> 0, high |-> 10]

\* C10: a region that resolves to a code never gives the failure signal; with
\* no geometry entry of the region the three sequences are empty
EmptyJoinIsNotAFailure ==
    (Returned /\ Resolves(state)) =>
        /\ IsFigure(ret)
        /\ (RegionGeo(county_data, state) = {} => ret.source.rate = <<>>)

(***************************** properties: age_by_state ********************)
\* a precedes b in code-point order
LexLess(a, b) ==
    \E k \in 1..Len(b) :
        /\ k <= Len(a) + 1
        /\ \A m \in 1..(k - 1) : a[m] = b[m]
        /\ (k = Len(a) + 1 \/ ord(a[k]) < ord(b[k]))

\* positions of the records of the target region in a canonical cohort
Contributing(df, st) ==
    {i \in 1..Len(df) : df[i].state = st /\ df[i].age_group \in Range(AGE_GROUPS)}

\* the cohorts of those records in the order of their first record
FirstAppearance(df, st) ==
    LET firsts == {i \in Contributing(df, st) :
                      \A j \in Contributing(df, st) :
                          df[j].age_group = df[i].age_group => i <= j}
    IN  [k \in 1..Cardinality(firsts) |-> df[KthOf(firsts, k)].age_group]

TableLabels(table) == [i \in 1..Len(table) |-> table[i].age_group]

\* C5 as stated: the returned table lists its cohorts in the order of their
\* first appearance among the filtered records
TableInFirstAppearanceOrder ==
    Returned => TableLabels(ret.df_age) = FirstAppearance(data, state)

\* C5 amended: the chart's x_range lists the cohorts in the order of their
\* first appearance; the returned table lists the same cohorts in ascending
\* code-point order of their labels
TableSortedAxisInFirstAppearanceOrder ==
    Returned =>
        /\ ret.plot.x_range = FirstAppearance(data, state)
        /\ Range(TableLabels(ret.df_age)) = Range(ret.plot.x_range)
        /\ \A i, j \in 1..Len(ret.df_age) :
              i < j => LexLess(ret.df_age[i].age_group, ret.df_age[j].age_group)

\* C5 witness: New York with "Under 1 year" (covid 2) then "25-34 years"
\* (covid 10): the axis keeps that order, the table starts with "25-34 years"
UnderOneThenTwentyFive ==
    /\ Returned
    /\ state = NewYork
    /\ Len(data) = 2
    /\ data[1].age_group = Under1 /\ data[1].covid_19_deaths = Num(2)
    /\ data[2].age_group = Age25to34 /\ data[2].covid_19_deaths = Num(10)
    /\ data[1].state = NewYork /\ data[2].state = NewYork
    /\ ret.plot.x_range = <<Under1, Age25to34>>
    /\ TableLabels(ret.df_age) = <<Age25to34, Under1>>
    /\ ret.df_age[1].sums.covid_19_deaths = 10
    /\ ret.df_age[2].sums.covid_19_deaths = 2

FigureNames == Range(STATE_FIGURES)

\* the value a cell adds to a sum
Addend(cell) == IF cell = NaN THEN 0 ELSE cell[1]

\* all orderings of the records of df
Reorderings(df) ==
    {[i \in 1..Len(df) |-> df[p[i]]] :
        p \in {q \in [1..Len(df) -> 1..Len(df)] :
                  \A i, j \in 1..Len(df) : i # j => q[i] # q[j]}}

\* the table as a set of (cohort, sums) pairs
TableRows(table) == {<<table[i].age_group, table[i].sums>> : i \in 1..Len(table)}

\* C6: each cohort's six sums are the sums over the records of the target
\* region in that canonical cohort, no other record contributes, no other
\* cohort appears, and every permutation of the records gives the same sums
SumsOverContributingRecords ==
    Returned =>
        /\ \A i \in 1..Len(ret.df_age) :
              LET rows == {r \in Contributing(data, state) :
                              data[r].age_group = ret.df_age[i].age_group}
              IN  /\ rows # {}
                  /\ \A f \in FigureNames :
                        ret.df_age[i].sums[f] =
                            SumOver(rows, [r \in rows |-> Addend(data[r][f])])
        /\ \A r \in Contributing(data, state) :
              data[r].age_group \in Range(TableLabels(ret.df_age))
        /\ Len(ret.df_age) = Cardinality(Range(TableLabels(ret.df_age)))
        /\ \A shuffled \in Reorderings(data) :
              TableRows(age_by_state(shuffled, state).df_age) = TableRows(ret.df_age)

\* C6 witness: two records of one cohort, one with missing figures, and a
\* record outside the canonical cohorts
MixedRecordsSummed ==
    /\ Returned
    /\ state = NewYork
    /\ Len(data) = 3
    /\ data[1].age_group = Under1 /\ data[1].total_deaths = Num(9)
    /\ data[2].age_group = AllAges /\ data[2].state = NewYork
    /\ data[3].age_group = Under1 /\ data[3].total_deaths = NaN
    /\ data[1].state = NewYork /\ data[3].state = NewYork
    /\ Len(ret.df_age) = 1
    /\ ret.df_age[1].sums.covid_19_deaths = 3
    /\ ret.df_age[1].sums.total_deaths = 9

\* C8: with no record of the target region the table has no cohort and the
\* call returns its figure, with an empty axis
NoRecordsEmptyTable ==
    (Returned /\ \A i \in 1..Len(data) : data[i].state # state) =>
        /\ ret.df_age = <<>>
        /\ ret.plot.kind = "figure"
        /\ ret.plot.x_range = <<>>

\* C8 witness: records of other regions only, one of them of a region whose
\* name starts with the target name
OnlyOtherRegions ==
    /\ Returned
    /\ state = NewYork
    /\ Len(data) >= 2
    /\ \A i \in 1..Len(data) : data[i].state # NewYork
    /\ \E i \in 1..Len(data) : data[i].state = NewYorkCity
    /\ ret.df_age = <<>>

(***************************** properties: index ***************************)
Responded == pc = "responded"

\* "Total" occurs in s
HasTotal(s) ==
    \E k \in 1..Len(s) : k + Len(Total) - 1 <= Len(s) /\ SubSeq(s, k, k + Len(Total) - 1) = Total

\* positions of the served state dataset that are not rollup rows
Retained(served) == {i \in 1..Len(served) : ~HasTotal(served[i].state)}

\* C7: after the rollup filter the state dataset is the served sequence with
\* the records whose state contains "Total" removed: none of those remains,
\* every other record is kept unchanged and in its relative order; the region
\* list is built from that dataset
RollupRowsRemovedInPlace ==
    Responded =>
        /\ \A i \in 1..Len(locals.state_data) : ~HasTotal(locals.state_data[i].state)
        /\ Len(locals.state_data) = Cardinality(Retained(remote.state))
        /\ \A k \in 1..Len(locals.state_data) :
              locals.state_data[k] = remote.state[KthOf(Retained(remote.state), k)]
        /\ (response.status = 200 =>
              \A x \in Range(response.states) : ~HasTotal(x))

\* C7 witness: a rollup row served between two rows that stay
RollupBetweenKeptRows ==
    /\ Responded
    /\ Len(remote.state) = 3
    /\ remote.state[1].state = NewYork
    /\ remote.state[2].state = UsTotal
    /\ remote.state[3].state = NewJersey
    /\ locals.state_data = <<remote.state[1], remote.state[3]>>
    /\ response.status = 200
    /\ response.states = <<NewYork, NewJersey>>

\* the region list index builds from a served state dataset
ExpectedStates(served) ==
    LET kept == {i \in Retained(served) : served[i].state # NewYorkCity}
    IN  [k \in 1..Cardinality(kept) |-> served[KthOf(kept, k)].state]

\* C4: a target name that is no display name of the map gives (None, None),
\* and the request still computes the region list it would have computed had
\* the lookup succeeded
LookupMissKeepsRegionList ==
    (Responded /\ ~Resolves(locals.current_state)) =>
        /\ locals.county_plot = Failure
        /\ response.status = 200
        /\ response.states = ExpectedStates(remote.state)

\* C9: a request whose county join fails still completes, with the
\* age-cohort chart rendered
CountyFailureKeepsAgeChart ==
    (Responded /\ locals.county_plot = Failure) =>
        /\ response.status = 200
        /\ response.state_div = locals.state_plot

====
